---- MODULE Spec2Model ----
(***************************************************************************)
(* The Universal Machine interpreter of src/src/main.rs as a state         *)
(* machine: one step of UniversalMachine::run per action, one action per   *)
(* arm of the `match operator`.                                            *)
(*                                                                         *)
(* A u32 is the pair <<hi, lo>> of its two 16-bit halves (the value is     *)
(* hi * 2^16 + lo); a usize is the triple <<ext, hi, lo>> whose first      *)
(* component holds the 32 bits above a u32.  All arithmetic is done on the *)
(* halves so that every intermediate value stays a small integer.          *)
(***************************************************************************)
EXTENDS Integers, Sequences, FiniteSets, TLC

VARIABLES
    instruction_pointer,  \* usize: offset into memory[0]
    registers,            \* [u32; 8]
    memory,               \* HashMap<usize, Vec<u32>>
    next_mem,             \* usize: next never-issued index
    free_mem,             \* Vec<usize>: stack of released indices
    operator,             \* the Operator decoded by the latest loop iteration
    stdin,                \* bytes not yet read from the host's standard input
    stdout_buffer,        \* bytes held by the line-buffered standard output
    stdout,               \* bytes delivered to the host's standard output
    pc,                   \* "read_program" | "main" | "run" | "returned" |
                          \* "panicked" | "exited"
    exit_code,            \* the process's exit status once pc = "exited"
    program_source,       \* bytes of the program file not yet read
    instructions          \* read_program's Vec<u32> while it is being filled

vars == <<instruction_pointer, registers, memory, next_mem, free_mem, operator,
          stdin, stdout_buffer, stdout, pc, exit_code, program_source,
          instructions>>

-----------------------------------------------------------------------------
(* Bounds of the exploration *)

\* longest enumerated image over CoreWords
MaxLen == 5
\* Alloc is explored for platters of at most this many words
MaxPlatter == 2
\* Alloc is explored while next_mem is at most this index
MaxFresh == 3
\* Dealloc is explored while free_mem holds fewer than this many indices
MaxFree == 3
\* longest enumerated standard input
MaxIn == 2
\* longest enumerated program file, in bytes
MaxFile == 5
\* Out is explored while fewer than this many bytes are pending or delivered
MaxStdout == 96

\* the exit status of a process whose main thread panicked
PanicStatus == 101

-----------------------------------------------------------------------------
(* u32 and usize values *)

Half == 2^16

U32(hi, lo) == <<hi, lo>>

Zero == U32(0, 0)

\* a small natural number as a u32
U32Of(n) == U32(n \div Half, n % Half)

\* `x as usize` for a u32 x: zero extension
AsUsize(w) == <<0, w[1], w[2]>>

\* `x as u32` for a usize x: the low 32 bits
AsU32(u) == <<u[2], u[3]>>

\* a small natural number as a usize
UsizeOf(n) == <<0, n \div Half, n % Half>>

\* usize + 1
UsizeInc(u) ==
    IF u[3] + 1 < Half THEN <<u[1], u[2], u[3] + 1>>
    ELSE IF u[2] + 1 < Half THEN <<u[1], u[2] + 1, 0>>
    ELSE <<u[1] + 1, 0, 0>>

\* vec[index] does not panic: index < vec.len()
InBounds(vec, index) ==
    /\ index[1] = 0
    /\ index[2] * Half + index[3] < Len(vec)

\* vec[index] for an index that is in bounds
At(vec, index) == vec[index[2] * Half + index[3] + 1]

\* a store that fills the whole vector with the value
StoreFill(vec, index, value) == [i \in DOMAIN vec |-> value]

\* vec with vec[index] = value, for an index that is in bounds
Store(vec, index, value) ==
    [vec EXCEPT ![index[2] * Half + index[3] + 1] = value]

\* vec![0; mem_size]
ZeroVec(mem_size) == [i \in 1..(mem_size[2] * Half + mem_size[3]) |-> Zero]

\* the length is within the explored platter sizes
SmallSize(mem_size) ==
    /\ mem_size[1] = 0
    /\ mem_size[2] = 0
    /\ mem_size[3] <= MaxPlatter

-----------------------------------------------------------------------------
(* impl From<u32> for Operator *)

\* the decoder with the subtraction that line 160 leaves commented out: the
\* immediate is the low 25 bits minus 1
FromMinusOne(bit_pattern) ==
    LET a == (bit_pattern[2] \div 64) % 8
        b == (bit_pattern[2] \div 8) % 8
        c == bit_pattern[2] % 8
        opcode == bit_pattern[1] \div 4096
        hi == bit_pattern[1] % 512
        lo == bit_pattern[2]
    IN  CASE opcode = 0 -> [op |-> "CondMove", a |-> a, b |-> b, c |-> c]
          [] opcode = 1 -> [op |-> "Read", a |-> a, b |-> b, c |-> c]
          [] opcode = 2 -> [op |-> "Write", a |-> a, b |-> b, c |-> c]
          [] opcode = 3 -> [op |-> "Add", a |-> a, b |-> b, c |-> c]
          [] opcode = 4 -> [op |-> "Mul", a |-> a, b |-> b, c |-> c]
          [] opcode = 5 -> [op |-> "Div", a |-> a, b |-> b, c |-> c]
          [] opcode = 6 -> [op |-> "NotAnd", a |-> a, b |-> b, c |-> c]
          [] opcode = 7 -> [op |-> "Halt"]
          [] opcode = 8 -> [op |-> "Alloc", b |-> b, c |-> c]
          [] opcode = 9 -> [op |-> "Dealloc", c |-> c]
          [] opcode = 10 -> [op |-> "Out", c |-> c]
          [] opcode = 11 -> [op |-> "In", c |-> c]
          [] opcode = 12 -> [op |-> "Load", b |-> b, c |-> c]
          [] opcode = 13 ->
                [op |-> "Immediate",
                 a |-> (bit_pattern[1] \div 512) % 8,
                 value |-> IF lo > 0 THEN U32(hi, lo - 1)
                           ELSE IF hi > 0 THEN U32(hi - 1, Half - 1)
                           ELSE U32(Half - 1, Half - 1)]
          [] OTHER -> [op |-> "Unsupported", opcode |-> U32(0, opcode)]

From(bit_pattern) ==
    LET a == (bit_pattern[2] \div 64) % 8
        b == (bit_pattern[2] \div 8) % 8
        c == bit_pattern[2] % 8
        opcode == bit_pattern[1] \div 4096
    IN  CASE opcode = 0 -> [op |-> "CondMove", a |-> a, b |-> b, c |-> c]
          [] opcode = 1 -> [op |-> "Read", a |-> a, b |-> b, c |-> c]
          [] opcode = 2 -> [op |-> "Write", a |-> a, b |-> b, c |-> c]
          [] opcode = 3 -> [op |-> "Add", a |-> a, b |-> b, c |-> c]
          [] opcode = 4 -> [op |-> "Mul", a |-> a, b |-> b, c |-> c]
          [] opcode = 5 -> [op |-> "Div", a |-> a, b |-> b, c |-> c]
          [] opcode = 6 -> [op |-> "NotAnd", a |-> a, b |-> b, c |-> c]
          [] opcode = 7 -> [op |-> "Halt"]
          [] opcode = 8 -> [op |-> "Alloc", b |-> b, c |-> c]
          [] opcode = 9 -> [op |-> "Dealloc", c |-> c]
          [] opcode = 10 -> [op |-> "Out", c |-> c]
          [] opcode = 11 -> [op |-> "In", c |-> c]
          [] opcode = 12 -> [op |-> "Load", b |-> b, c |-> c]
          [] opcode = 13 ->
                [op |-> "Immediate",
                 a |-> (bit_pattern[1] \div 512) % 8,
                 value |-> U32(bit_pattern[1] % 512, bit_pattern[2])]
          [] OTHER -> [op |-> "Unsupported", opcode |-> U32(0, opcode)]

-----------------------------------------------------------------------------
(* u32 arithmetic *)

\* u32::saturating_add in the place of wrapping_add
SaturatingAdd(x, y) ==
    LET lo == x[2] + y[2]
        hi == x[1] + y[1] + (lo \div Half)
    IN  IF hi >= Half THEN U32(Half - 1, Half - 1) ELSE U32(hi, lo % Half)

\* u32::wrapping_add
WrappingAdd(x, y) ==
    LET lo == x[2] + y[2]
        hi == x[1] + y[1] + (lo \div Half)
    IN  U32(hi % Half, lo % Half)

\* the full 32-bit product of two 16-bit halves, as a u32
MulHalves(p, q) ==
    LET upper == (p \div 256) * q        \* weighs 2^8
        lower == (p % 256) * q
    IN  WrappingAdd(U32(upper \div 256, (upper % 256) * 256),
                    U32(lower \div Half, lower % Half))

\* u32::wrapping_mul
WrappingMul(x, y) ==
    LET low == MulHalves(x[2], y[2])
        cross == WrappingAdd(MulHalves(x[1], y[2]), MulHalves(x[2], y[1]))
    IN  WrappingAdd(U32(cross[2], 0), low)

\* x >= y on pairs of halves (the first half may exceed 16 bits)
Geq(x, y) == x[1] > y[1] \/ (x[1] = y[1] /\ x[2] >= y[2])

\* x - y on pairs of halves, for x >= y
Minus(x, y) ==
    IF x[2] >= y[2] THEN <<x[1] - y[1], x[2] - y[2]>>
    ELSE <<x[1] - y[1] - 1, x[2] + Half - y[2]>>

\* bit i (0 = least significant) of a u32
Bit(x, i) == IF i < 16 THEN (x[2] \div 2^i) % 2 ELSE (x[1] \div 2^(i - 16)) % 2

\* x with bit i set
SetBit(x, i) == IF i < 16 THEN <<x[1], x[2] + 2^i>> ELSE <<x[1] + 2^(i - 16), x[2]>>

\* restoring long division of x by y # 0, from bit i downwards:
\* acc = [q |-> quotient so far, r |-> remainder so far]
RECURSIVE DivFrom(_, _, _, _)
DivFrom(x, y, i, acc) ==
    IF i < 0 THEN acc.q
    ELSE LET low == 2 * acc.r[2] + Bit(x, i)
             r2 == <<2 * acc.r[1] + (low \div Half), low % Half>>
         IN  IF Geq(r2, y)
             THEN DivFrom(x, y, i - 1, [q |-> SetBit(acc.q, i), r |-> Minus(r2, y)])
             ELSE DivFrom(x, y, i - 1, [q |-> acc.q, r |-> r2])

\* the division of the low 31 bits of x in the place of wrapping_div: bit 31
\* of the dividend is taken for a sign and dropped
DivLow31(x, y) == DivFrom(x, y, 30, [q |-> Zero, r |-> Zero])

\* u32::wrapping_div for a divisor that is not 0 (a zero divisor panics)
WrappingDiv(x, y) == DivFrom(x, y, 31, [q |-> Zero, r |-> Zero])

\* !(p & q) on 16-bit halves, bit by bit
RECURSIVE NotAndHalf(_, _, _)
NotAndHalf(p, q, n) ==
    IF n = 0 THEN 0
    ELSE (1 - (p % 2) * (q % 2)) + 2 * NotAndHalf(p \div 2, q \div 2, n - 1)

\* !(x & y)
NotAnd32(x, y) == U32(NotAndHalf(x[1], y[1], 16), NotAndHalf(x[2], y[2], 16))

-----------------------------------------------------------------------------
(* Text written to the standard output *)

\* the decimal digits of a small natural number, as ASCII
RECURSIVE DecNat(_)
DecNat(n) == IF n < 10 THEN <<48 + n>> ELSE DecNat(n \div 10) \o <<48 + (n % 10)>>

\* x / 10 and x % 10 for a u32
DivMod10(x) ==
    LET rest == (x[1] % 10) * Half + x[2]
    IN  [q |-> U32(x[1] \div 10, rest \div 10), r |-> rest % 10]

\* Display of a u32: its decimal digits, as ASCII
RECURSIVE DecU32(_)
DecU32(x) ==
    LET d == DivMod10(x)
    IN  IF d.q = Zero THEN <<48 + d.r>> ELSE DecU32(d.q) \o <<48 + d.r>>

NewLine == <<10>>

\* "Welcome to the Universal Machine.\n"
WelcomeText ==
    <<87, 101, 108, 99, 111, 109, 101, 32, 116, 111, 32, 116, 104, 101, 32, 85,
      110, 105, 118, 101, 114, 115, 97, 108, 32, 77, 97, 99, 104, 105, 110, 101,
      46, 10>>

\* "Input file: ../sandmark.umz\n"
InputFileText ==
    <<73, 110, 112, 117, 116, 32, 102, 105, 108, 101, 58, 32, 46, 46, 47, 115,
      97, 110, 100, 109, 97, 114, 107, 46, 117, 109, 122, 10>>

\* "Number of instructions: {}\n"
NumberText(len) ==
    <<78, 117, 109, 98, 101, 114, 32, 111, 102, 32, 105, 110, 115, 116, 114, 117,
      99, 116, 105, 111, 110, 115, 58, 32>> \o DecNat(len) \o NewLine

\* "Failed to write value {} to memory {}\n"
WriteFailedText(value, a) ==
    <<70, 97, 105, 108, 101, 100, 32, 116, 111, 32, 119, 114, 105, 116, 101, 32,
      118, 97, 108, 117, 101, 32>> \o DecU32(value)
    \o <<32, 116, 111, 32, 109, 101, 109, 111, 114, 121, 32>> \o DecNat(a) \o NewLine

\* "Failed to load program from array {}\n"
LoadFailedText(b) ==
    <<70, 97, 105, 108, 101, 100, 32, 116, 111, 32, 108, 111, 97, 100, 32, 112,
      114, 111, 103, 114, 97, 109, 32, 102, 114, 111, 109, 32, 97, 114, 114, 97,
      121, 32>> \o DecNat(b) \o NewLine

\* "Unsupported instruction: {}\n"
UnsupportedText(opcode) ==
    <<85, 110, 115, 117, 112, 112, 111, 114, 116, 101, 100, 32, 105, 110, 115,
      116, 114, 117, 99, 116, 105, 111, 110, 58, 32>> \o DecU32(opcode) \o NewLine

\* `x as u8 as char` displayed: the UTF-8 encoding of the code point x % 256
CharText(x) ==
    LET byte == x[2] % 256
    IN  IF byte < 128 THEN <<byte>>
        ELSE <<192 + (byte \div 64), 128 + (byte % 64)>>

\* the largest i with text[i] a line feed, or 0
RECURSIVE LastNewLine(_, _)
LastNewLine(text, i) ==
    IF i = 0 THEN 0
    ELSE IF text[i] = 10 THEN i ELSE LastNewLine(text, i - 1)

\* print!/println! on the line-buffered standard output: everything up to the
\* last line feed written goes to the host, the rest stays in the buffer
\* (the buffer's capacity of 1024 bytes is never reached within MaxOut)
PrintBuffered(buffer, host, text) ==
    LET all == buffer \o text
        cut == IF LastNewLine(text, Len(text)) = 0 THEN 0
               ELSE Len(buffer) + LastNewLine(text, Len(text))
    IN  [host |-> host \o SubSeq(all, 1, cut),
         buffer |-> SubSeq(all, cut + 1, Len(all))]

-----------------------------------------------------------------------------
(* HashMap<usize, Vec<u32>> *)

\* memory.insert(key, vec)
Insert(mem, key, vec) ==
    [k \in DOMAIN mem \cup {key} |-> IF k = key THEN vec ELSE mem[k]]

\* memory.remove(&key)
Remove(mem, key) == [k \in DOMAIN mem \ {key} |-> mem[k]]

\* the key of the program array
ProgramKey == UsizeOf(0)

-----------------------------------------------------------------------------
(* Instruction words, for building images *)

\* an instruction with three register operands
Enc(opcode, a, b, c) == U32(opcode * 4096, a * 64 + b * 8 + c)

\* the load-immediate instruction
EncImm(a, value) == U32(13 * 4096 + a * 512 + (value \div Half), value % Half)

\* the words of the enumerated images
CoreWords ==
    { EncImm(1, 1),        \* r1 = 1
      EncImm(2, 2),        \* r2 = 2
      Enc(8, 0, 2, 1),     \* r2 = alloc(r1)
      Enc(9, 0, 0, 1),     \* dealloc(r1)
      Enc(9, 0, 0, 2),     \* dealloc(r2)
      Enc(2, 2, 0, 1),     \* memory[r2][r0] = r1
      Enc(12, 0, 2, 0) }   \* load memory[r2], jump to r0

CoreImages == UNION { [1..n -> CoreWords] : n \in 1..MaxLen }

\* opcode 7
HaltWord == Enc(7, 0, 0, 0)

\* r0 = byte; out(r0)
Say(byte) == <<EncImm(0, byte), Enc(10, 0, 0, 0)>>

\* print "A" / print "Hi\n" / print a byte that is not ASCII
PrintImages ==
    { <<HaltWord>>,
      Say(65) \o <<HaltWord>>,
      Say(72) \o Say(105) \o Say(10) \o <<HaltWord>>,
      Say(233) \o <<HaltWord>>,
      <<EncImm(0, 321), Enc(10, 0, 0, 0), HaltWord>> }

\* the echo loop: read a byte, halt on 0xFFFFFFFF, else write it and repeat
EchoImage ==
    << Enc(11, 0, 0, 0),     \* 0: r0 = in()
       Enc(6, 1, 0, 0),      \* 1: r1 = !(r0 & r0)
       EncImm(2, 8),         \* 2: r2 = 8
       EncImm(3, 6),         \* 3: r3 = 6
       Enc(0, 2, 3, 1),      \* 4: if r1 != 0 { r2 = r3 }
       Enc(12, 0, 7, 2),     \* 5: jump to r2
       Enc(10, 0, 0, 0),     \* 6: out(r0)
       Enc(12, 0, 7, 7),     \* 7: jump to 0
       HaltWord >>           \* 8: halt

\* read one byte, write it, halt
ReadOnceImage == <<Enc(11, 0, 0, 0), Enc(10, 0, 0, 0), HaltWord>>

\* the operand values of the arithmetic images
ArithValues == {0, 1, 3, 2^25 - 1}

\* r1 = x (complemented when nx = 1), r2 = y (complemented when ny = 1),
\* r3 = r1 <opcode> r2, halt
ArithImage(opcode, x, nx, y, ny) ==
    <<EncImm(1, x), EncImm(2, y)>>
    \o (IF nx = 1 THEN <<Enc(6, 1, 1, 1)>> ELSE <<>>)
    \o (IF ny = 1 THEN <<Enc(6, 2, 2, 2)>> ELSE <<>>)
    \o <<Enc(opcode, 3, 1, 2), HaltWord>>

ArithImages ==
    { ArithImage(opcode, x, nx, y, ny) :
        opcode \in {0, 3, 4, 5, 6}, x \in ArithValues, nx \in {0, 1},
        y \in ArithValues, ny \in {0, 1} }

\* 0xFFFFFF doubled nine times, then the low byte is written
WrapImage ==
    <<EncImm(1, 2^24 - 1)>> \o [i \in 1..9 |-> Enc(3, 1, 1, 1)]
    \o <<Enc(10, 0, 0, 1), HaltWord>>

\* reads of the program array, of an absent array and past the end
ReadImages ==
    { <<Enc(1, 1, 0, 0), HaltWord>>,
      <<EncImm(2, 1), Enc(1, 1, 0, 2), Enc(1, 3, 2, 0), HaltWord>>,
      <<EncImm(2, 5), Enc(1, 1, 0, 2), HaltWord>> }

\* the two illegal opcodes
IllegalImages == { <<U32(14 * 4096, 0)>>, <<U32(15 * 4096 + 7, 9)>> }

\* a write past the end of an array
WritePastImage == <<EncImm(1, 4), Enc(2, 0, 1, 1), HaltWord>>

\* builds a two-word program in a fresh array out of its own words 10 and 11,
\* loads it, and the loaded program writes to its source and to itself
SelfCopyImage ==
    << EncImm(1, 2),         \*  0: r1 = 2
       Enc(8, 0, 2, 1),      \*  1: r2 = alloc(r1)
       EncImm(3, 10),        \*  2: r3 = 10
       Enc(1, 4, 0, 3),      \*  3: r4 = memory[0][r3]
       Enc(2, 2, 0, 4),      \*  4: memory[r2][0] = r4
       EncImm(3, 11),        \*  5: r3 = 11
       Enc(1, 4, 0, 3),      \*  6: r4 = memory[0][r3]
       EncImm(5, 1),         \*  7: r5 = 1
       Enc(2, 2, 5, 4),      \*  8: memory[r2][r5] = r4
       Enc(12, 0, 2, 0),     \*  9: load memory[r2], jump to 0
       Enc(2, 2, 0, 1),      \* 10: memory[r2][r0] = r1
       Enc(2, 0, 0, 1) >>    \* 11: memory[r0][r0] = r1

ScenarioImages ==
    PrintImages \cup {EchoImage, ReadOnceImage, WrapImage, WritePastImage,
                      SelfCopyImage}
    \cup ArithImages \cup ReadImages \cup IllegalImages

Images == CoreImages \cup ScenarioImages

\* the bytes of the enumerated standard inputs: 'A', and a byte that is not
\* UTF-8 on its own
InBytes == {65, 200}

Inputs == UNION { [1..n -> InBytes] : n \in 0..MaxIn }

\* the image holds an In instruction
ReadsInput(image) == \E i \in 1..Len(image) : From(image[i]).op = "In"

-----------------------------------------------------------------------------
(* main, up to the call of UniversalMachine::run *)

Init ==
    \E image \in Images :
        /\ memory = Insert(<<>>, ProgramKey, image)
        /\ instruction_pointer = UsizeOf(0)
        /\ registers = [r \in 0..7 |-> Zero]
        /\ next_mem = UsizeOf(1)
        /\ free_mem = <<>>
        /\ operator = [op |-> "None"]
        /\ stdin \in (IF ReadsInput(image) THEN Inputs ELSE {<<>>})
        /\ stdout_buffer = <<>>
        /\ stdout = WelcomeText \o InputFileText \o NumberText(Len(image))
        /\ pc = "run"
        /\ exit_code = -1
        /\ program_source = <<>>
        /\ instructions = <<>>

-----------------------------------------------------------------------------
(* UniversalMachine::run: one loop iteration per step *)

\* memory[&0][instruction_pointer] does not panic
CanFetch ==
    /\ ProgramKey \in DOMAIN memory
    /\ InBounds(memory[ProgramKey], instruction_pointer)

\* let instruction = memory[&0][instruction_pointer]
Instruction == At(memory[ProgramKey], instruction_pointer)

\* the loop iteration decodes an operator of the given kind and advances the
\* instruction pointer
Dispatch(kind) ==
    /\ pc = "run"
    /\ CanFetch
    /\ From(Instruction).op = kind
    /\ operator' = From(Instruction)
    /\ UNCHANGED <<program_source, instructions>>

\* a loop that leaves the instruction pointer where it is
NoAdvance == instruction_pointer' = instruction_pointer

Advance == instruction_pointer' = UsizeInc(instruction_pointer)

\* the fetch indexes past the program array, or the array is gone: panic
FetchPanic ==
    /\ pc = "run"
    /\ ~CanFetch
    /\ pc' = "panicked"
    /\ UNCHANGED <<instruction_pointer, registers, memory, next_mem, free_mem,
                   operator, stdin, stdout_buffer, stdout, exit_code,
                   program_source, instructions>>

CondMove ==
    /\ Dispatch("CondMove")
    /\ Advance
    /\ LET a == operator'.a
           b == operator'.b
           c == operator'.c
       IN  registers' = IF registers[c] # Zero
                        THEN [registers EXCEPT ![a] = registers[b]]
                        ELSE registers
    /\ UNCHANGED <<memory, next_mem, free_mem, stdin, stdout_buffer, stdout,
                   pc, exit_code>>

Read ==
    /\ Dispatch("Read")
    /\ Advance
    /\ LET a == operator'.a
           source == AsUsize(registers[operator'.b])
           offset == AsUsize(registers[operator'.c])
       IN  IF source \in DOMAIN memory /\ InBounds(memory[source], offset)
           THEN /\ registers' = [registers EXCEPT ![a] = At(memory[source], offset)]
                /\ pc' = pc
           ELSE /\ registers' = registers
                /\ pc' = "panicked"
    /\ UNCHANGED <<memory, next_mem, free_mem, stdin, stdout_buffer, stdout,
                   exit_code>>

Write ==
    /\ Dispatch("Write")
    /\ Advance
    /\ LET a == operator'.a
           memory_allocation == AsUsize(registers[a])
           offset == AsUsize(registers[operator'.b])
           value == registers[operator'.c]
       IN  IF memory_allocation \in DOMAIN memory
           THEN IF InBounds(memory[memory_allocation], offset)
                THEN /\ memory' = [memory EXCEPT ![memory_allocation] =
                                       Store(@, offset, value)]
                     /\ pc' = pc
                     /\ UNCHANGED <<stdout_buffer, stdout>>
                ELSE /\ pc' = "panicked"
                     /\ UNCHANGED <<memory, stdout_buffer, stdout>>
           ELSE LET out == PrintBuffered(stdout_buffer, stdout,
                                         WriteFailedText(value, a))
                IN  /\ stdout' = out.host
                    /\ stdout_buffer' = out.buffer
                    /\ pc' = "returned"
                    /\ memory' = memory
    /\ UNCHANGED <<registers, next_mem, free_mem, stdin, exit_code>>

Add ==
    /\ Dispatch("Add")
    /\ Advance
    /\ registers' = [registers EXCEPT ![operator'.a] =
                        WrappingAdd(registers[operator'.b], registers[operator'.c])]
    /\ UNCHANGED <<memory, next_mem, free_mem, stdin, stdout_buffer, stdout,
                   pc, exit_code>>

Mul ==
    /\ Dispatch("Mul")
    /\ Advance
    /\ registers' = [registers EXCEPT ![operator'.a] =
                        WrappingMul(registers[operator'.b], registers[operator'.c])]
    /\ UNCHANGED <<memory, next_mem, free_mem, stdin, stdout_buffer, stdout,
                   pc, exit_code>>

Div ==
    /\ Dispatch("Div")
    /\ Advance
    /\ IF registers[operator'.c] # Zero
       THEN /\ registers' = [registers EXCEPT ![operator'.a] =
                    WrappingDiv(registers[operator'.b], registers[operator'.c])]
            /\ pc' = pc
       ELSE /\ registers' = registers
            /\ pc' = "panicked"
    /\ UNCHANGED <<memory, next_mem, free_mem, stdin, stdout_buffer, stdout,
                   exit_code>>

NotAnd ==
    /\ Dispatch("NotAnd")
    /\ Advance
    /\ registers' = [registers EXCEPT ![operator'.a] =
                        NotAnd32(registers[operator'.b], registers[operator'.c])]
    /\ UNCHANGED <<memory, next_mem, free_mem, stdin, stdout_buffer, stdout,
                   pc, exit_code>>

Halt ==
    /\ Dispatch("Halt")
    /\ Advance
    /\ pc' = "returned"
    /\ UNCHANGED <<registers, memory, next_mem, free_mem, stdin, stdout_buffer,
                   stdout, exit_code>>

\* PopOrFresh taking the oldest released index instead of the newest
PopOrFreshOldest(free, next) ==
    IF free # <<>>
    THEN [mem_index |-> free[1],
          free_mem |-> SubSeq(free, 2, Len(free)),
          next_mem |-> next]
    ELSE [mem_index |-> next,
          free_mem |-> free,
          next_mem |-> UsizeInc(next)]

\* match free_mem.pop(): the index the allocation takes, with the free stack
\* and the fresh counter it leaves
PopOrFresh(free, next) ==
    IF free # <<>>
    THEN [mem_index |-> free[Len(free)],
          free_mem |-> SubSeq(free, 1, Len(free) - 1),
          next_mem |-> next]
    ELSE [mem_index |-> next,
          free_mem |-> free,
          next_mem |-> UsizeInc(next)]

\* the fresh counter is within the explored indices
SmallNext == next_mem[1] = 0 /\ next_mem[2] = 0 /\ next_mem[3] <= MaxFresh

Alloc ==
    /\ Dispatch("Alloc")
    /\ Advance
    /\ LET b == operator'.b
           mem_size == AsUsize(registers[operator'.c])
           taken == PopOrFresh(free_mem, next_mem)
       IN  /\ SmallSize(mem_size)
           /\ free_mem # <<>> \/ SmallNext
           /\ free_mem' = taken.free_mem
           /\ next_mem' = taken.next_mem
           /\ memory' = Insert(memory, taken.mem_index, ZeroVec(mem_size))
           /\ registers' = [registers EXCEPT ![b] = AsU32(taken.mem_index)]
    /\ UNCHANGED <<stdin, stdout_buffer, stdout, pc, exit_code>>

Dealloc ==
    /\ Dispatch("Dealloc")
    /\ Advance
    /\ Len(free_mem) < MaxFree
    /\ LET target == AsUsize(registers[operator'.c])
       IN  /\ memory' = Remove(memory, target)
           /\ free_mem' = Append(free_mem, target)
    /\ UNCHANGED <<registers, next_mem, stdin, stdout_buffer, stdout, pc,
                   exit_code>>

Out ==
    /\ Dispatch("Out")
    /\ Advance
    /\ Len(stdout) + Len(stdout_buffer) < MaxStdout
    /\ LET out == PrintBuffered(stdout_buffer, stdout,
                                CharText(registers[operator'.c]))
       IN  /\ stdout' = out.host
           /\ stdout_buffer' = out.buffer
    /\ UNCHANGED <<registers, memory, next_mem, free_mem, stdin, pc, exit_code>>

\* what the In arm stores: read_to_string takes every byte up to the end of
\* the input; it reports a length of 1 only for a single byte that is UTF-8
\* on its own (below 128), and every other outcome (no byte, several bytes,
\* or bytes that are not UTF-8) stores 0
InValue(buffer) ==
    IF Len(buffer) = 1 /\ buffer[1] < 128 THEN U32(0, buffer[1]) ELSE Zero

In ==
    /\ Dispatch("In")
    /\ Advance
    /\ registers' = [registers EXCEPT ![operator'.c] = InValue(stdin)]
    /\ stdin' = <<>>
    /\ UNCHANGED <<memory, next_mem, free_mem, stdout_buffer, stdout, pc,
                   exit_code>>

\* Loaded moving the target to index 0 instead of cloning it
LoadedByMove(mem, target) ==
    IF target # ProgramKey
    THEN Insert(Remove(mem, target), ProgramKey, mem[target])
    ELSE mem

\* the memory a Load of a present array leaves: array 0 becomes a clone of
\* the target, unless the target is array 0 itself
Loaded(mem, target) ==
    IF target # ProgramKey THEN Insert(mem, ProgramKey, mem[target]) ELSE mem

\* Jump keeping the increment of the fetch on top of the target
JumpPlusOne(regs, c) == UsizeInc(AsUsize(regs[c]))

\* instruction_pointer = registers[c] as usize
Jump(regs, c) == AsUsize(regs[c])

Load ==
    /\ Dispatch("Load")
    /\ LET b == operator'.b
           c == operator'.c
           target == AsUsize(registers[b])
       IN  IF target = ProgramKey \/ target \in DOMAIN memory
           THEN /\ memory' = Loaded(memory, target)
                /\ instruction_pointer' = Jump(registers, c)
                /\ pc' = pc
                /\ UNCHANGED <<stdout_buffer, stdout>>
           ELSE LET out == PrintBuffered(stdout_buffer, stdout, LoadFailedText(b))
                IN  /\ stdout' = out.host
                    /\ stdout_buffer' = out.buffer
                    /\ pc' = "returned"
                    /\ Advance
                    /\ memory' = memory
    /\ UNCHANGED <<registers, next_mem, free_mem, stdin, exit_code>>

Immediate ==
    /\ Dispatch("Immediate")
    /\ Advance
    /\ registers' = [registers EXCEPT ![operator'.a] = operator'.value]
    /\ UNCHANGED <<memory, next_mem, free_mem, stdin, stdout_buffer, stdout,
                   pc, exit_code>>

Unsupported ==
    /\ Dispatch("Unsupported")
    /\ Advance
    /\ LET out == PrintBuffered(stdout_buffer, stdout,
                                UnsupportedText(operator'.opcode))
       IN  /\ stdout' = out.host
           /\ stdout_buffer' = out.buffer
    /\ pc' = "returned"
    /\ UNCHANGED <<registers, memory, next_mem, free_mem, stdin, exit_code>>

-----------------------------------------------------------------------------
(* main, after UniversalMachine::run, and the end of the process *)

\* run returned: println!(), Ok(()), and the runtime flushes the standard
\* output on the way out
MainReturn ==
    /\ pc = "returned"
    /\ LET out == PrintBuffered(stdout_buffer, stdout, NewLine)
       IN  /\ stdout' = out.host \o out.buffer
           /\ stdout_buffer' = <<>>
    /\ pc' = "exited"
    /\ exit_code' = 0
    /\ UNCHANGED <<instruction_pointer, registers, memory, next_mem, free_mem,
                   operator, stdin, program_source, instructions>>

\* a panic unwinds out of main: the runtime flushes the standard output and
\* the process ends with the status of a panic
PanicExit ==
    /\ pc = "panicked"
    /\ stdout' = stdout \o stdout_buffer
    /\ stdout_buffer' = <<>>
    /\ pc' = "exited"
    /\ exit_code' = PanicStatus
    /\ UNCHANGED <<instruction_pointer, registers, memory, next_mem, free_mem,
                   operator, stdin, program_source, instructions>>

Next ==
    \/ FetchPanic
    \/ CondMove
    \/ Read
    \/ Write
    \/ Add
    \/ Mul
    \/ Div
    \/ NotAnd
    \/ Halt
    \/ Alloc
    \/ Dealloc
    \/ Out
    \/ In
    \/ Load
    \/ Immediate
    \/ Unsupported
    \/ MainReturn
    \/ PanicExit

Spec == Init /\ [][Next]_vars

-----------------------------------------------------------------------------
(* main and read_program, from the opened program file to the call of run *)

\* the bytes of the enumerated program files
FileBytes == {0, 112, 255}

Files == UNION { [1..n -> FileBytes] : n \in 0..MaxFile }

\* u32::from_le_bytes in the place of from_be_bytes
FromLeBytes(buf) == U32(buf[4] * 256 + buf[3], buf[2] * 256 + buf[1])

\* u32::from_be_bytes
FromBeBytes(buf) == U32(buf[1] * 256 + buf[2], buf[3] * 256 + buf[4])

\* the program file is open, the welcome and the file name are printed
InitLoad ==
    /\ program_source \in Files
    /\ instructions = <<>>
    /\ memory = <<>>
    /\ instruction_pointer = UsizeOf(0)
    /\ registers = [r \in 0..7 |-> Zero]
    /\ next_mem = UsizeOf(1)
    /\ free_mem = <<>>
    /\ operator = [op |-> "None"]
    /\ stdin = <<>>
    /\ stdout_buffer = <<>>
    /\ stdout = WelcomeText \o InputFileText
    /\ pc = "read_program"
    /\ exit_code = -1

\* read_exact fills the buffer: one more instruction
ReadWord ==
    /\ pc = "read_program"
    /\ Len(program_source) >= 4
    /\ instructions' = Append(instructions, FromBeBytes(SubSeq(program_source, 1, 4)))
    /\ program_source' = SubSeq(program_source, 5, Len(program_source))
    /\ UNCHANGED <<instruction_pointer, registers, memory, next_mem, free_mem,
                   operator, stdin, stdout_buffer, stdout, pc, exit_code>>

\* read_exact meets the end of the file before the buffer is full (with 0
\* to 3 bytes left, which it takes): the loop ends, the count is printed
\* and the instructions read so far are returned
ReadEnd ==
    /\ pc = "read_program"
    /\ Len(program_source) < 4
    /\ program_source' = <<>>
    /\ LET out == PrintBuffered(stdout_buffer, stdout, NumberText(Len(instructions)))
       IN  /\ stdout' = out.host
           /\ stdout_buffer' = out.buffer
    /\ pc' = "main"
    /\ UNCHANGED <<instruction_pointer, registers, memory, next_mem, free_mem,
                   operator, stdin, exit_code, instructions>>

\* main builds the machine around the program and calls run
Construct ==
    /\ pc = "main"
    /\ memory' = Insert(<<>>, ProgramKey, instructions)
    /\ instructions' = <<>>
    /\ instruction_pointer' = UsizeOf(0)
    /\ registers' = [r \in 0..7 |-> Zero]
    /\ next_mem' = UsizeOf(1)
    /\ free_mem' = <<>>
    /\ pc' = "run"
    /\ UNCHANGED <<operator, stdin, stdout_buffer, stdout, exit_code,
                   program_source>>

NextLoad ==
    \/ ReadWord
    \/ ReadEnd
    \/ Construct

SpecLoad == InitLoad /\ [][NextLoad]_vars

-----------------------------------------------------------------------------
(* Operator::from on its own: one word is fetched and decoded *)

\* bits 27..16 of the decoded words: none, the lowest, bit 24, bit 25, the
\* register field of an immediate, all
DecodeHighBits == {0, 1, 256, 511, 512, 3584, 4095}

\* bits 15..0 of the decoded words: none, each operand field, the operand
\* fields together, bit 9, a mix, all
DecodeLowBits == {0, 7, 56, 448, 511, 512, 32841, 65535}

\* the decoded words: every opcode with every choice of the other bits
DecodeWords ==
    { U32(opcode * 4096 + high, low) :
        opcode \in 0..15, high \in DecodeHighBits, low \in DecodeLowBits }

InitDecode ==
    \E word \in DecodeWords :
        /\ memory = Insert(<<>>, ProgramKey, <<word>>)
        /\ instruction_pointer = UsizeOf(0)
        /\ registers = [r \in 0..7 |-> Zero]
        /\ next_mem = UsizeOf(1)
        /\ free_mem = <<>>
        /\ operator = [op |-> "None"]
        /\ stdin = <<>>
        /\ stdout_buffer = <<>>
        /\ stdout = <<>>
        /\ pc = "decode"
        /\ exit_code = -1
        /\ program_source = <<>>
        /\ instructions = <<>>

\* let operator = Operator::from(instruction)
Decode ==
    /\ pc = "decode"
    /\ operator' = From(Instruction)
    /\ pc' = "decoded"
    /\ UNCHANGED <<instruction_pointer, registers, memory, next_mem, free_mem,
                   stdin, stdout_buffer, stdout, exit_code, program_source,
                   instructions>>

NextDecode == Decode

SpecDecode == InitDecode /\ [][NextDecode]_vars

-----------------------------------------------------------------------------
(* Vocabulary of the properties *)

\* the next loop iteration executes an operator of the given kind
Executes(kind) == pc = "run" /\ CanFetch /\ From(Instruction).op = kind

\* the operator the next loop iteration executes
Fetched == From(Instruction)

\* the non-zero keys of a memory
Platters(mem) == DOMAIN mem \ {ProgramKey}

\* the value of a small usize
Small(u) == u[2] * Half + u[3]

-----------------------------------------------------------------------------
(* C1: an allocated array keeps its length until it is deallocated, and its *)
(* contents change only by a Write to its own index; no Alloc and no        *)
(* Dealloc of another index replaces, resizes or clears it.                 *)
C1_IdentifierStability ==
    [][\A id \in Platters(memory) :
          ~(Executes("Dealloc") /\ AsUsize(registers[Fetched.c]) = id)
          => /\ id \in DOMAIN memory'
             /\ Len(memory'[id]) = Len(memory[id])
             /\ memory'[id] # memory[id]
                => Executes("Write") /\ AsUsize(registers[Fetched.a]) = id]_vars

(* C2: no index on the free stack is a key of memory, and the non-zero keys *)
(* of memory are exactly the indices an Alloc returned and no Dealloc has   *)
(* taken since: a step adds only the index its Alloc returns and removes    *)
(* only the index its Dealloc names.                                        *)
C2_FreeListDisjoint ==
    [][/\ \A i \in 1..Len(free_mem') : free_mem'[i] \notin DOMAIN memory'
       /\ Platters(memory') \ Platters(memory) =
             IF Executes("Alloc") THEN {AsUsize(registers'[Fetched.b])} ELSE {}
       /\ Platters(memory) \ Platters(memory') =
             IF Executes("Dealloc")
             THEN {AsUsize(registers[Fetched.c])} \cap Platters(memory)
             ELSE {}]_vars

(* C3: an Alloc with a non-empty free stack returns the index released most *)
(* recently among those on the stack and leaves the fresh counter alone; an *)
(* Alloc with an empty free stack returns the fresh counter, which starts   *)
(* at 1, and adds one to it.  In particular an Alloc that directly follows  *)
(* a Dealloc returns the index that Dealloc released.                       *)
C3_ReuseIsLifo ==
    [][/\ operator.op = "None" => Small(next_mem) = 1
       /\ Executes("Alloc") =>
            /\ free_mem # <<>> =>
                  /\ registers'[Fetched.b] = AsU32(free_mem[Len(free_mem)])
                  /\ free_mem' = SubSeq(free_mem, 1, Len(free_mem) - 1)
                  /\ next_mem' = next_mem
            /\ free_mem = <<>> =>
                  /\ Small(AsUsize(registers'[Fetched.b])) = Small(next_mem)
                  /\ Small(next_mem') = Small(next_mem) + 1
                  /\ next_mem'[1] = next_mem[1]
                  /\ free_mem' = <<>>
            /\ operator.op = "Dealloc" =>
                  registers'[Fetched.b] = registers[operator.c]]_vars

\* an Alloc has just returned index 2 off a free stack that held 1 below it
C3_Witness ==
    /\ operator.op = "Alloc"
    /\ registers[operator.b] = U32(0, 2)
    /\ free_mem = <<UsizeOf(1)>>
    /\ Small(next_mem) = 1

(* C4: every Alloc stores in register B an index that is not 0 and was not  *)
(* a key of memory when the instruction began, and the array at that index  *)
(* then has register C's length and holds only zeros.                       *)
C4_AllocFreshZeroed ==
    [][Executes("Alloc") =>
          LET id == AsUsize(registers'[Fetched.b])
              n == registers[Fetched.c]
          IN  /\ id # ProgramKey
              /\ id \notin DOMAIN memory
              /\ id \in DOMAIN memory'
              /\ Len(memory'[id]) = n[1] * Half + n[2]
              /\ \A i \in 1..Len(memory'[id]) : memory'[id][i] = Zero]_vars

(* C5: a Dealloc of index 0 or of an index that is not a key of memory ends *)
(* the run at that instruction and leaves memory, the free stack and the    *)
(* fresh counter as they were.                                              *)
C5_DeallocBadIdentifier ==
    [][(/\ Executes("Dealloc")
        /\ AsUsize(registers[Fetched.c]) \notin Platters(memory))
       => /\ pc' # "run"
          /\ memory' = memory
          /\ free_mem' = free_mem
          /\ next_mem' = next_mem]_vars

(* C6: memory holds an array at index 0 in every reachable state.           *)
C6_ProgramAlwaysPresent == ProgramKey \in DOMAIN memory

(* C7: a Load whose register B holds 0 sets the instruction pointer to      *)
(* register C and changes nothing else: not array 0, not another array, no  *)
(* register, not the free stack, not the fresh counter.                     *)
C7_LoadZeroOnlyJumps ==
    [][(Executes("Load") /\ registers[Fetched.b] = Zero)
       => /\ instruction_pointer' = <<0, registers[Fetched.c][1],
                                         registers[Fetched.c][2]>>
          /\ pc' = "run"
          /\ UNCHANGED <<registers, memory, next_mem, free_mem, stdin,
                         stdout_buffer, stdout, exit_code>>]_vars

\* a Load of array 0 has just jumped forward to offset 6
C7_Witness ==
    /\ operator.op = "Load"
    /\ registers[operator.b] = Zero
    /\ pc = "run"
    /\ Small(instruction_pointer) = 6
    /\ Small(AsUsize(registers[operator.c])) = 6

(* C8: a Load whose register B holds the non-zero index of a present array  *)
(* makes array 0 equal to it in length and in every word, sets the          *)
(* instruction pointer to register C, and leaves the source present and     *)
(* unchanged; the copy shares nothing, as a Write changes the one array it  *)
(* addresses and no other (so neither the source by a Write to array 0, nor *)
(* array 0 by a Write to the source).                                       *)
C8_LoadCopies ==
    [][/\ (/\ Executes("Load")
           /\ registers[Fetched.b] # Zero
           /\ AsUsize(registers[Fetched.b]) \in DOMAIN memory)
          => LET source == AsUsize(registers[Fetched.b])
             IN  /\ Len(memory'[ProgramKey]) = Len(memory[source])
                 /\ \A i \in 1..Len(memory[source]) :
                        memory'[ProgramKey][i] = memory[source][i]
                 /\ Small(instruction_pointer') =
                        Small(AsUsize(registers[Fetched.c]))
                 /\ source \in DOMAIN memory'
                 /\ memory'[source] = memory[source]
                 /\ pc' = "run"
       /\ Executes("Write")
          => /\ DOMAIN memory' = DOMAIN memory
             /\ \A id \in DOMAIN memory :
                    id # AsUsize(registers[Fetched.a])
                    => memory'[id] = memory[id]]_vars

\* after a Load of array 1, a Write has changed word 0 of one of the two
\* arrays and the other still holds the loaded word
C8_Witness ==
    /\ operator.op = "Write"
    /\ pc = "run"
    /\ UsizeOf(1) \in DOMAIN memory
    /\ ProgramKey \in DOMAIN memory
    /\ Len(memory[ProgramKey]) = 2
    /\ Len(memory[UsizeOf(1)]) = 2
    /\ memory[ProgramKey][2] = memory[UsizeOf(1)][2]
    /\ memory[ProgramKey][1] # memory[UsizeOf(1)][1]
    /\ From(memory[ProgramKey][2]).op = "Write"

(* C9: the process ends with status 0 only when the last instruction the    *)
(* run executed is a Halt; a run ended by any fault ends with another       *)
(* status.                                                                  *)
C9_ZeroExitOnlyOnHalt ==
    (pc = "exited" /\ exit_code = 0) => operator.op = "Halt"

(* C10: an In executed with no byte left on the standard input stores       *)
(* 0xFFFFFFFF in register C and the run goes on.                            *)
C10_EofSentinel ==
    [][(Executes("In") /\ stdin = <<>>)
       => /\ registers'[Fetched.c] = U32(65535, 65535)
          /\ pc' = "run"]_vars

(* C11: an In executed while bytes remain on the standard input takes       *)
(* exactly the first of them, stores it zero-extended in register C, and    *)
(* leaves the others, in order, for the next In.                            *)
C11_InputTakesOneByte ==
    [][(Executes("In") /\ stdin # <<>>)
       => /\ registers'[Fetched.c] = U32(0, stdin[1])
          /\ stdin' = Tail(stdin)
          /\ pc' = "run"]_vars

(* C12: an Out whose register C holds more than 255 ends the run and no     *)
(* byte of it reaches the standard output, buffered or delivered.           *)
C12_BadOutputFaults ==
    [][(/\ Executes("Out")
        /\ (registers[Fetched.c][1] # 0 \/ registers[Fetched.c][2] > 255))
       => /\ pc' # "run"
          /\ stdout' = stdout
          /\ stdout_buffer' = stdout_buffer]_vars

(* C13: the bytes written to the standard output are exactly the values of  *)
(* register C of the Out instructions executed, one byte each, in order:    *)
(* nothing is written before the first instruction, an Out adds its one     *)
(* byte, and no other step adds any (so a Halt-only image writes nothing).  *)
C13_OutputIsExactlyTheOuts ==
    [][/\ operator.op = "None" => stdout \o stdout_buffer = <<>>
       /\ stdout' \o stdout_buffer' =
             (stdout \o stdout_buffer)
             \o (IF Executes("Out") THEN <<registers[Fetched.c][2]>> ELSE <<>>)]_vars

(* C14: when an In starts, and when the process has ended after a Halt, no  *)
(* byte written by an earlier Out is still held in the output buffer.       *)
C14_FlushedBeforeInput ==
    /\ Executes("In") => stdout_buffer = <<>>
    /\ (pc = "exited" /\ operator.op = "Halt") => stdout_buffer = <<>>

(* C15: a program file whose length is not a multiple of 4 is refused: the  *)
(* process ends with a status other than 0 and never reaches the run; a     *)
(* file of 4k bytes gives k words, each the big-endian value of its four    *)
(* bytes, and those words become array 0.                                   *)
C15_ImageLoading ==
    [][/\ (pc = "read_program" /\ Len(program_source) >= 4)
          => /\ instructions' =
                   instructions \o
                   << <<program_source[1] * 256 + program_source[2],
                        program_source[3] * 256 + program_source[4]>> >>
             /\ program_source' = Tail(Tail(Tail(Tail(program_source))))
             /\ pc' = "read_program"
       /\ (pc = "read_program" /\ Len(program_source) \in 1..3)
          => /\ pc' = "exited"
             /\ exit_code' # 0
             /\ exit_code' # -1
       /\ (pc = "read_program" /\ Len(program_source) = 0)
          => /\ pc' = "main"
             /\ instructions' = instructions
       /\ pc = "main"
          => /\ pc' = "run"
             /\ memory'[ProgramKey] = instructions]_vars

-----------------------------------------------------------------------------
(* Numerals of the mathematical integers: the reference the arithmetic is   *)
(* compared with                                                            *)

\* the four base-256 digits of a u32, least significant digit first
Digits(x) == <<x[2] % 256, x[2] \div 256, x[1] % 256, x[1] \div 256>>

\* the 32 bits of a u32, least significant bit first
BitsOf(x) == [i \in 1..32 |-> Bit(x, i - 1)]

\* the digit of a numeral at position i, 0 beyond its length
Digit(xs, i) == IF i \in 1..Len(xs) THEN xs[i] ELSE 0

\* carries the columns of a sum or of a product into digits below 256, from
\* column i on, after the digits already in acc; the result is exact, as the
\* last column takes the last carry
RECURSIVE Carried(_, _, _, _)
Carried(columns, i, carry, acc) ==
    IF i > Len(columns) THEN acc
    ELSE Carried(columns, i + 1, (columns[i] + carry) \div 256,
                 Append(acc, (columns[i] + carry) % 256))

\* the exact sum of two numerals, one digit longer than the longer of them
SumDigits(xs, ys) ==
    LET n == IF Len(xs) > Len(ys) THEN Len(xs) ELSE Len(ys)
    IN  Carried([k \in 1..(n + 1) |-> Digit(xs, k) + Digit(ys, k)], 1, 0, <<>>)

\* the exact product of two numerals of four digits, by long multiplication
ProductDigits(xs, ys) ==
    Carried([k \in 1..8 |->
                Digit(xs, 1) * Digit(ys, k) + Digit(xs, 2) * Digit(ys, k - 1)
                + Digit(xs, 3) * Digit(ys, k - 2) + Digit(xs, 4) * Digit(ys, k - 3)],
            1, 0, <<>>)

\* a numeral modulo 2^32: its four lowest digits
Mod32(xs) == SubSeq(xs, 1, 4)

\* xs < ys as integers, comparing from digit i down
RECURSIVE LessFrom(_, _, _)
LessFrom(xs, ys, i) ==
    IF i = 0 THEN FALSE
    ELSE IF Digit(xs, i) # Digit(ys, i) THEN Digit(xs, i) < Digit(ys, i)
         ELSE LessFrom(xs, ys, i - 1)

LessDigits(xs, ys) ==
    LessFrom(xs, ys, IF Len(xs) > Len(ys) THEN Len(xs) ELSE Len(ys))

(* C16: Add stores (x + y) mod 2^32, Mul stores (x * y) mod 2^32 and NotAnd *)
(* stores the complement of x AND y on the 32 bits, x and y being the       *)
(* values of registers B and C before the instruction; none of the three    *)
(* ends the run, whatever the operands.                                     *)
C16_ArithmeticClosure ==
    [][/\ Executes("Add")
          => /\ Digits(registers'[Fetched.a]) =
                   Mod32(SumDigits(Digits(registers[Fetched.b]),
                                   Digits(registers[Fetched.c])))
             /\ pc' = "run"
       /\ Executes("Mul")
          => /\ Digits(registers'[Fetched.a]) =
                   Mod32(ProductDigits(Digits(registers[Fetched.b]),
                                       Digits(registers[Fetched.c])))
             /\ pc' = "run"
       /\ Executes("NotAnd")
          => /\ BitsOf(registers'[Fetched.a]) =
                   [i \in 1..32 |-> 1 - BitsOf(registers[Fetched.b])[i]
                                        * BitsOf(registers[Fetched.c])[i]]
             /\ pc' = "run"]_vars

\* a Mul of 0xFFFFFFFF by 0xFFFFFFFC has just stored 4
C16_Witness ==
    /\ operator.op = "Mul"
    /\ pc = "run"
    /\ registers[operator.b] = U32(65535, 65535)
    /\ registers[operator.c] = U32(65535, 65532)
    /\ registers[operator.a] = U32(0, 4)

(* C17: Div with a nonzero register C stores the unsigned quotient          *)
(* floor(x / y) of the values x, y of registers B and C read as unsigned     *)
(* integers, that is the q with q * y <= x < q * y + y, also when bit 31 of  *)
(* an operand is set; with register C = 0 it ends the run by a fault and     *)
(* changes no register.                                                      *)
C17_UnsignedDivision ==
    [][/\ (Executes("Div") /\ registers[Fetched.c] # Zero)
          => LET x == Digits(registers[Fetched.b])
                 y == Digits(registers[Fetched.c])
                 times == ProductDigits(Digits(registers'[Fetched.a]), y)
             IN  /\ ~LessDigits(x, times)
                 /\ LessDigits(x, SumDigits(times, y))
                 /\ pc' = "run"
       /\ (Executes("Div") /\ registers[Fetched.c] = Zero)
          => /\ pc' = "panicked"
             /\ registers' = registers]_vars

\* a Div of 0xFFFFFFFF by 3 has just stored 0x55555555
C17_Witness ==
    /\ operator.op = "Div"
    /\ pc = "run"
    /\ registers[operator.b] = U32(65535, 65535)
    /\ registers[operator.c] = U32(0, 3)
    /\ registers[operator.a] = U32(21845, 21845)

-----------------------------------------------------------------------------
(* The fields of an instruction word, bit by bit *)

\* the number written by bits from..(from + width - 1) of a u32
Field(x, from, width) ==
    LET RECURSIVE Value(_)
        Value(i) == IF i = width THEN 0 ELSE Bit(x, from + i) * 2^i + Value(i + 1)
    IN  Value(0)

\* the operator names of opcodes 0..13
OperatorNames ==
    <<"CondMove", "Read", "Write", "Add", "Mul", "Div", "NotAnd", "Halt",
      "Alloc", "Dealloc", "Out", "In", "Load", "Immediate">>

\* the operands the operators of opcodes 0..12 carry
OperandNames(opcode) ==
    IF opcode <= 6 THEN {"a", "b", "c"}
    ELSE IF opcode = 7 THEN {}
    ELSE IF opcode \in {8, 12} THEN {"b", "c"}
    ELSE {"c"}

\* what the decoder has to return for a word, from the bits of the word
Decoded(word, result) ==
    LET opcode == Field(word, 28, 4)
    IN  IF opcode <= 12
        THEN /\ result.op = OperatorNames[opcode + 1]
             /\ DOMAIN result = {"op"} \cup OperandNames(opcode)
             /\ "a" \in DOMAIN result => result.a = Field(word, 6, 3)
             /\ "b" \in DOMAIN result => result.b = Field(word, 3, 3)
             /\ "c" \in DOMAIN result => result.c = Field(word, 0, 3)
        ELSE IF opcode = 13
        THEN /\ result.op = "Immediate"
             /\ result.a = Field(word, 25, 3)
             /\ BitsOf(result.value) =
                    [i \in 1..32 |-> IF i <= 25 THEN BitsOf(word)[i] ELSE 0]
        ELSE /\ result.op = "Unsupported"
             /\ result.opcode = U32(0, opcode)

(* C18: decoding never fails: every word decodes to an operator. Opcodes    *)
(* 0..12 give the operator of the opcode with A = bits 8..6, B = bits 5..3  *)
(* and C = bits 2..0, whatever bits 27..9 are; opcode 13 gives the register  *)
(* of bits 27..25 and the immediate of bits 24..0, zero-extended and with    *)
(* nothing subtracted; opcodes 14 and 15 give the unsupported operator that  *)
(* carries the opcode.                                                       *)
C18_DecodeTotal ==
    [][pc = "decode"
          => /\ pc' = "decoded"
             /\ Decoded(Instruction, operator')
             /\ \A other \in DecodeWords :
                   (/\ Field(other, 28, 4) = Field(Instruction, 28, 4)
                    /\ Field(other, 28, 4) <= 12
                    /\ Field(other, 0, 9) = Field(Instruction, 0, 9))
                   => From(other) = operator']_vars

\* an immediate with bit 24 and bit 0 set and reserved-looking bits used by
\* the register field has been decoded
C18_Witness ==
    /\ pc = "decoded"
    /\ operator.op = "Immediate"
    /\ operator.a = 7
    /\ operator.value = U32(511, 32841)

-----------------------------------------------------------------------------

\* the instruction pointer has moved to the next word
Stepped ==
    /\ instruction_pointer'[1] = 0
    /\ Small(instruction_pointer') = Small(instruction_pointer) + 1

(* C19: each loop iteration decodes the word that array 0 holds at the      *)
(* instruction pointer when the iteration starts, words written there by    *)
(* earlier Write instructions included; after any instruction but Load the  *)
(* instruction pointer is the old one plus 1, after a Load that finds its    *)
(* array it is the value of register C; an iteration whose instruction       *)
(* pointer is not below the length of array 0 (the first iteration of an     *)
(* empty image included) ends the run by a fault and changes neither the     *)
(* registers nor the memory.                                                 *)
C19_FetchAndAdvance ==
    [][/\ (pc = "run" /\ CanFetch)
          => operator' = From(memory[ProgramKey][Small(instruction_pointer) + 1])
       /\ (pc = "run" /\ CanFetch /\ Fetched.op # "Load")
          => Stepped
       /\ (/\ Executes("Load")
           /\ \/ registers[Fetched.b] = Zero
              \/ AsUsize(registers[Fetched.b]) \in DOMAIN memory)
          => /\ instruction_pointer' = <<0, registers[Fetched.c][1],
                                         registers[Fetched.c][2]>>
             /\ pc' = "run"
       /\ (pc = "run" /\ ~CanFetch)
          => /\ pc' = "panicked"
             /\ registers' = registers
             /\ memory' = memory]_vars

\* word 0 of the program was overwritten with 1, a Load of array 0 jumped to
\* offset 0, and the iteration after it decoded the new word: CondMove 0 0 1
C19_Witness ==
    /\ pc = "run"
    /\ ProgramKey \in DOMAIN memory
    /\ Len(memory[ProgramKey]) >= 3
    /\ memory[ProgramKey][1] = U32(0, 1)
    /\ From(memory[ProgramKey][3]).op = "Load"
    /\ instruction_pointer = UsizeOf(1)
    /\ operator = [op |-> "CondMove", a |-> 0, b |-> 0, c |-> 1]

\* every register but register a is as it was, and so are the memory, the
\* free list and the next fresh index; the instruction pointer has advanced
OnlyRegister(a) ==
    /\ \A r \in 0..7 : r # a => registers'[r] = registers[r]
    /\ memory' = memory
    /\ free_mem' = free_mem
    /\ next_mem' = next_mem
    /\ Stepped

(* C20: CondMove, Add, Mul, Div, NotAnd and Immediate change at most        *)
(* register A and advance the instruction pointer by 1: the other seven     *)
(* registers, every array, the free list and the next fresh index stay as   *)
(* they were; CondMove with register C = 0 changes no register; Read        *)
(* changes only register A; Write changes only the one word at offset       *)
(* register B of the array register A names.                                *)
C20_Frame ==
    [][/\ (\E kind \in {"CondMove", "Add", "Mul", "Div", "NotAnd", "Immediate",
                        "Read"} : Executes(kind))
          => OnlyRegister(Fetched.a)
       /\ (Executes("CondMove") /\ registers[Fetched.c] = Zero)
          => registers' = registers
       /\ Executes("Write")
          => /\ registers' = registers
             /\ free_mem' = free_mem
             /\ next_mem' = next_mem
             /\ Stepped
             /\ DOMAIN memory' = DOMAIN memory
             /\ \A key \in DOMAIN memory :
                   /\ Len(memory'[key]) = Len(memory[key])
                   /\ \A i \in 1..Len(memory[key]) :
                         (\/ key # <<0, registers[Fetched.a][1],
                                     registers[Fetched.a][2]>>
                          \/ UsizeOf(i - 1) # <<0, registers[Fetched.b][1],
                                                registers[Fetched.b][2]>>)
                         => memory'[key][i] = memory[key][i]]_vars

\* a Write has just stored 1 in word 0 of a program of several words and
\* left the next word, the Write itself, as it was
C20_Witness ==
    /\ pc = "run"
    /\ operator = [op |-> "Write", a |-> 2, b |-> 0, c |-> 1]
    /\ instruction_pointer = UsizeOf(2)
    /\ memory[ProgramKey][1] = U32(0, 1)
    /\ memory[ProgramKey][2] = Enc(2, 2, 0, 1)
    /\ registers[1] = U32(0, 1)

====
